---- MODULE Spec2Model ----
(***************************************************************************)
(* BrainBoard: the game-session documents of the Firestore collection      *)
(* "gameSessions" and the screens that read and write them.                *)
(*                                                                         *)
(*   HostGameMenu.launchLobby      creates a session with a random PIN     *)
(*   Lobby (host)                  onSnapshot, toggleLobbyLock,            *)
(*                                 handleStartGame                         *)
(*   JoinGameScreen.handleJoinGame finds the session by PIN, appends the   *)
(*                                 player to the roster it has read        *)
(*   GameScreen                    onSnapshot, joinWithUsername (three     *)
(*                                 revisions of the file are in the tree)  *)
(*                                                                         *)
(* A handler that reads the roster or a screen's state and then awaits     *)
(* updateDoc is two steps: what it read before the await is what is        *)
(* written when the store applies the update.  updateDoc replaces the      *)
(* named fields and nothing else, and is applied unconditionally.          *)
(* One join is in flight per device at a time.  No code of the tree        *)
(* writes the status "ended" or deletes a session document.                *)
(*                                                                         *)
(* Beside the main specification Spec there is one specification per part  *)
(* that is checked on its own: SpecPin (several sessions and their PINs),  *)
(* SpecCancel (the host's Cancel button), SpecGameScreen (one device from  *)
(* the username form to the answer buttons), SpecPinText (the PIN as text, *)
(* from Math.random() to the code field), SpecNickname                     *)
(* (generateUniqueNickname), SpecAutoJoin (the nickname generator switch   *)
(* and the join it triggers), SpecSnapshot (the listeners, with fairness), *)
(* SpecTimer (the countdown of part_001), SpecSettings (the number fields  *)
(* of HostGameMenu), SpecJoining (the Join Game button), SpecDashboard     *)
(* (confirmDelete of TeacherDashboard) and SpecCreate (saveGame of         *)
(* CreateGameMenu).                                                        *)
(***************************************************************************)
EXTENDS Integers, Sequences, FiniteSets

VARIABLES
    gameSessions,   \* the collection: session id -> document, or NoDoc
    lobbyPlayers,   \* Lobby: the players state of the host's lobby screen
    lobbyLocked,    \* Lobby: the isLobbyLocked state of the host's lobby screen
    lobbyScreen,    \* the host's screen of a session: "none", "Lobby", "PlayGameScreen",
                    \* "TeacherDashboard"
    pendingStart,   \* handleStartGame calls awaiting their updateDoc, oldest first (the caller's isHost)
    build,          \* which revision of GameScreen.js the clients run
    screen,         \* player client: the screen it shows
    route,          \* player client: the sessionId it resolved / was navigated with
    session,        \* GameScreen: the session state (last snapshot), NoDoc while loading
    pc,             \* player client: "idle", or "updating" while its updateDoc is awaited
    payload,        \* player client: the argument of the awaited updateDoc
    hasSetUsername, \* GameScreen: hasSetUsername state
    nextGuest,      \* number of guest uids minted so far
    joined,         \* history: the joins that reported success, with the device that made them
    showCancelModal,\* Lobby: showCancelModal state of the host's lobby screen
    submitted,      \* GameScreen (part_001): "Answer Submitted" alerts shown for the question on screen
    lastPin,        \* HostGameMenu: the pin string launchLobby computed last
    codeInput,      \* JoinGameScreen: the gameCode state (the text of the code field)
    codeCheck,      \* JoinGameScreen: outcome of the length check for the text in the field:
                    \* "unchecked", "Invalid Code", "accepted"
    existingNames,  \* generateUniqueNickname: its argument
    attempts,       \* generateUniqueNickname: its attempts counter
    nickname,       \* generateUniqueNickname: the value returned, "" while none
    nicknameGenerator, \* HostGameMenu: the nicknameGenerator switch
    hasGeneratedRef,\* GameScreen (part_002): hasGeneratedRef.current
    autoJoins,      \* history: automatic generate-and-join runs of the device's snapshot callback
    timeLeft,       \* GameScreen (part_001): timeLeft state, 0 while null
    settingsInput,  \* HostGameMenu: the texts of the gameDuration, maxPlayers and
                    \* timePerQuestion fields
    settingsDoc,    \* the settings of the session launchLobby created last, or NoSettings
    isJoining,      \* JoinGameScreen: isJoining state
    inFlight,       \* JoinGameScreen: calls of handleJoinGame that have not returned
    joinAlert,      \* JoinGameScreen: how the call that returned last ended
    games,          \* TeacherDashboard: ids of the games listed
    gameDocs,       \* ids of the documents of the games collection
    deletingIds,    \* TeacherDashboard: deletingIds state
    deleteModal,    \* TeacherDashboard: deleteModal.gameId, NoGame while closed
    deletions,      \* TeacherDashboard: calls of confirmDelete awaiting the store,
                    \* each with the deletingIds its closure holds
    gameTitle,      \* CreateGameMenu: gameTitle state
    questions,      \* CreateGameMenu: questions state
    savedGames      \* documents saveGame wrote to the games collection

\* state of the parts of the screens that are checked under their own specifications
hostMenuVars == <<settingsInput, settingsDoc>>

joinScreenVars == <<isJoining, inFlight, joinAlert>>

dashboardVars == <<games, gameDocs, deletingIds, deleteModal, deletions>>

createVars == <<gameTitle, questions, savedGames>>

menuVars == <<joinScreenVars, dashboardVars, createVars>>

otherScreens == <<showCancelModal, submitted, lastPin, codeInput, codeCheck,
                  existingNames, attempts, nickname, hostMenuVars, menuVars>>

\* the nickname switch, and what the snapshot callback of GameScreen sets
\* beside the session
autoVars == <<nicknameGenerator, hasGeneratedRef, autoJoins, timeLeft>>

sideVars == <<otherScreens, autoVars>>

vars == <<gameSessions, lobbyPlayers, lobbyLocked, lobbyScreen, pendingStart, build,
          screen, route, session, pc, payload, hasSetUsername, nextGuest, joined, sideVars>>

lobbyVars == <<lobbyPlayers, lobbyLocked, lobbyScreen, pendingStart>>
clientVars == <<screen, route, session, pc, payload, hasSetUsername>>

----------------------------------------------------------------------------
(* Bounds *)

NumClients == 2     \* player devices
NumAccounts == 1    \* signed-in accounts
MaxSessions == 2    \* session documents ever created
NumPins == 2        \* size of the PIN space the model draws from
MaxGuests == 2      \* guest uids minted
MaxStarts == 2      \* handleStartGame calls in flight on one lobby screen
MaxCapacity == 1    \* largest settings.maxPlayers a host enters
PinClients == 2     \* player devices under SpecPin
LobbySessions == 1  \* sessions launched under Spec
GameScreenClients == 1  \* player devices under SpecGameScreen
MaxNameLength == 20 \* maxLength of the username field
MinNameLength == 3  \* the shortest name the form's hint allows
RandomSteps == 64   \* Math.random() returns k / RandomSteps for a k in 0..RandomSteps-1
CodeLength == 6     \* length of a game code, and maxLength of the code field
maxAttempts == 20   \* generateUniqueNickname: samples drawn before the fallback
MaxSubmits == 2     \* presses of an answer button counted per device
MaxAutoJoins == 2   \* automatic generate-and-join runs counted per device
QuestionSeconds == 2 \* settings.timePerQuestion of the sessions
AutoClients == 2    \* player devices under SpecAutoJoin

Clients == 1..NumClients
Accounts == 1..NumAccounts
NoUser == 0                     \* auth.currentUser is null
Users == Accounts \cup {NoUser}
SessionIds == 1..MaxSessions
Pins == 1..NumPins
Names == {"Ann", "Ben"}         \* usernames typed into the lobby form
GuestNames == {"Player7"}       \* names drawn for a guest on the join screen
\* texts typed into the username field under SpecGameScreen
Usernames == {"Ann", "Ann ", "Al", " Al", "  ", "Maximilian Alexander the Third"}
MaxPlayersChoices == 1..MaxCapacity
Builds == {"GameScreen.js", "part_001", "part_002"}

NoDoc == [status |-> "none"]
NoSettings == [created |-> FALSE]
NumGames == 2
GameIds == 1..NumGames
NoGame == 0
\* useState('10'), useState('30'), useState('60')
DefaultSettingsInput == [gameDuration |-> "10", maxPlayers |-> "30", timePerQuestion |-> "60"]
NoPayload == [players |-> <<>>, uid |-> 0, name |-> ""]

\* `guest_${Date.now()}_${random}`: the n-th guest uid minted, distinct from all
\* others and from the accounts' uids (an account's uid is its number)
GuestUid(n) == NumAccounts + n

----------------------------------------------------------------------------
(* Helpers on rosters and on the collection *)

Uids(roster) == {roster[i].uid : i \in 1..Len(roster)}
RosterNames(roster) == {roster[i].name : i \in 1..Len(roster)}

SetMin(S) == CHOOSE x \in S : \A y \in S : x <= y

Exists(s) == gameSessions[s] # NoDoc

\* query(collection(db,"gameSessions"), where("pin","==",gameCode)): the matching documents
QueryByPin(code) == {s \in SessionIds : Exists(s) /\ gameSessions[s].pin = code}

\* querySnapshot.docs[0]: results come ordered by document id
FirstDoc(code) == SetMin(QueryByPin(code))

\* user.displayName of the accounts
AccountNames == <<"Ann", "Ben", "Cid">>

\* playerName of handleJoinGame: the account's display name, or for a guest
\* `Player${Math.floor(Math.random() * 1000)}` with the number drawn
PlayerName(user, drawn) == IF user # NoUser THEN AccountNames[user] ELSE drawn

\* the player entry of the join screen with a starting score that differs from
\* the one the lobby form writes
PlayerEntry_ScoreOne(uid, name) == [uid |-> uid, name |-> name, score |-> 1]

\* the player entry handleJoinGame builds
PlayerEntry(uid, name) == [uid |-> uid, name |-> name, score |-> 0]

\* the player entry joinWithUsername builds (newPlayer / playerEntry)
FormEntry(uid, name) == [uid |-> uid, name |-> name, score |-> 0]

----------------------------------------------------------------------------
Init ==
    /\ gameSessions = [s \in SessionIds |-> NoDoc]
    /\ lobbyPlayers = [s \in SessionIds |-> <<>>]
    /\ lobbyLocked = [s \in SessionIds |-> FALSE]
    /\ lobbyScreen = [s \in SessionIds |-> "none"]
    /\ pendingStart = [s \in SessionIds |-> <<>>]
    /\ build \in Builds
    /\ screen = [c \in Clients |-> "JoinGameScreen"]
    /\ route = [c \in Clients |-> 0]
    /\ session = [c \in Clients |-> NoDoc]
    /\ pc = [c \in Clients |-> "idle"]
    /\ payload = [c \in Clients |-> NoPayload]
    /\ hasSetUsername = [c \in Clients |-> FALSE]
    /\ nextGuest = 0
    /\ joined = {}
    /\ showCancelModal = [s \in SessionIds |-> FALSE]
    /\ submitted = [c \in Clients |-> 0]
    /\ lastPin = ""
    /\ codeInput = ""
    /\ codeCheck = "unchecked"
    /\ existingNames = {}
    /\ attempts = 0
    /\ nickname = ""
    /\ nicknameGenerator = FALSE
    /\ hasGeneratedRef = [c \in Clients |-> FALSE]
    /\ autoJoins = [c \in Clients |-> 0]
    /\ timeLeft = [c \in Clients |-> 0]
    /\ settingsInput = DefaultSettingsInput
    /\ settingsDoc = NoSettings
    /\ isJoining = FALSE
    /\ inFlight = 0
    /\ joinAlert = "none"
    /\ games = GameIds
    /\ gameDocs = GameIds
    /\ deletingIds = {}
    /\ deleteModal = NoGame
    /\ deletions = <<>>
    /\ gameTitle = ""
    /\ questions = <<>>
    /\ savedGames = {}

----------------------------------------------------------------------------
(* HostGameMenu *)

\* the document launchLobby passes to addDoc
NewSession(pin, maxPlayers) ==
    [pin |-> pin, status |-> "lobby", players |-> <<>>, currentQuestionIndex |-> 0,
     isLobbyLocked |-> FALSE, maxPlayers |-> maxPlayers,
     nicknameGenerator |-> nicknameGenerator]

\* addDoc creates a document under an id no document has
FreshIds == {s \in SessionIds : ~Exists(s)}

\* launchLobby writing under an id that may already hold a session
launchLobby_ReusedId(s, pin, maxPlayers) ==
    /\ gameSessions' = [gameSessions EXCEPT ![s] = NewSession(pin, maxPlayers)]
    /\ lobbyScreen' = [lobbyScreen EXCEPT ![s] = "Lobby"]
    /\ UNCHANGED <<lobbyPlayers, lobbyLocked, pendingStart, build, clientVars,
                   nextGuest, joined, sideVars>>

\* launchLobby: draw a PIN, addDoc the session, navigate to the host's lobby
launchLobby(s, pin, maxPlayers) ==
    /\ s \in FreshIds
    /\ gameSessions' = [gameSessions EXCEPT ![s] = NewSession(pin, maxPlayers)]
    /\ lobbyScreen' = [lobbyScreen EXCEPT ![s] = "Lobby"]
    /\ UNCHANGED <<lobbyPlayers, lobbyLocked, pendingStart, build, clientVars,
                   nextGuest, joined, sideVars>>

\* the nicknameGenerator switch of HostGameMenu
setNicknameGenerator(value) ==
    /\ nicknameGenerator' = value
    /\ value # nicknameGenerator
    /\ UNCHANGED <<gameSessions, lobbyVars, build, clientVars, nextGuest, joined,
                   otherScreens, hasGeneratedRef, autoJoins, timeLeft>>

----------------------------------------------------------------------------
(* Lobby (host) *)

\* onSnapshot callback of Lobby: setPlayers, setIsLobbyLocked
LobbyOnSnapshot(s) ==
    /\ lobbyScreen[s] \in {"Lobby", "PlayGameScreen"}
    /\ \/ lobbyPlayers[s] # gameSessions[s].players
       \/ lobbyLocked[s] # gameSessions[s].isLobbyLocked
    /\ lobbyPlayers' = [lobbyPlayers EXCEPT ![s] = gameSessions[s].players]
    /\ lobbyLocked' = [lobbyLocked EXCEPT ![s] = gameSessions[s].isLobbyLocked]
    /\ UNCHANGED <<gameSessions, lobbyScreen, pendingStart, build, clientVars,
                   nextGuest, joined, sideVars>>

\* toggleLobbyLock: writes the negation of the lock state the screen shows
toggleLobbyLock(s, isHost) ==
    /\ lobbyScreen[s] = "Lobby"
    /\ ~showCancelModal[s]
    /\ isHost
    /\ gameSessions' = [gameSessions EXCEPT ![s].isLobbyLocked = ~lobbyLocked[s]]
    /\ UNCHANGED <<lobbyVars, build, clientVars, nextGuest, joined, sideVars>>

\* handleStartGame without the check that the screen shows a player
handleStartGame_NoPlayerCheck(s, isHost) ==
    /\ lobbyScreen[s] = "Lobby"
    /\ ~showCancelModal[s]
    /\ isHost
    /\ Len(pendingStart[s]) < MaxStarts
    /\ pendingStart' = [pendingStart EXCEPT ![s] = Append(@, isHost)]
    /\ UNCHANGED <<gameSessions, lobbyPlayers, lobbyLocked, lobbyScreen, build,
                   clientVars, nextGuest, joined, sideVars>>

\* handleStartGame up to its await: the guards on isHost and on the players the
\* screen shows, then updateDoc is issued
handleStartGame(s, isHost) ==
    /\ lobbyScreen[s] = "Lobby"
    /\ ~showCancelModal[s]
    /\ isHost
    /\ Len(lobbyPlayers[s]) # 0
    /\ Len(pendingStart[s]) < MaxStarts
    /\ pendingStart' = [pendingStart EXCEPT ![s] = Append(@, isHost)]
    /\ UNCHANGED <<gameSessions, lobbyPlayers, lobbyLocked, lobbyScreen, build,
                   clientVars, nextGuest, joined, sideVars>>

\* the updateDoc of handleStartGame is applied, then the host navigates
StartUpdateDoc(s) ==
    /\ pendingStart[s] # <<>>
    /\ gameSessions' = [gameSessions EXCEPT ![s].status = "playing",
                                            ![s].currentQuestionIndex = 0]
    /\ pendingStart' = [pendingStart EXCEPT ![s] = Tail(@)]
    /\ lobbyScreen' = [lobbyScreen EXCEPT ![s] = "PlayGameScreen"]
    /\ UNCHANGED <<lobbyPlayers, lobbyLocked, build, clientVars, nextGuest, joined, sideVars>>

\* the state the cancel buttons leave alone
cancelFrame == <<gameSessions, lobbyPlayers, lobbyLocked, pendingStart, build, clientVars,
                 nextGuest, joined, submitted, lastPin, codeInput, codeCheck,
                 existingNames, attempts, nickname, autoVars,
                   hostMenuVars, menuVars>>

\* handleCancel: the Cancel button opens the confirmation modal
handleCancel(s) ==
    /\ lobbyScreen[s] = "Lobby"
    /\ ~showCancelModal[s]
    /\ showCancelModal' = [showCancelModal EXCEPT ![s] = TRUE]
    /\ UNCHANGED <<lobbyScreen, cancelFrame>>

\* cancelModalCancel: the modal is dismissed
cancelModalCancel(s) ==
    /\ lobbyScreen[s] = "Lobby"
    /\ showCancelModal[s]
    /\ showCancelModal' = [showCancelModal EXCEPT ![s] = FALSE]
    /\ UNCHANGED <<lobbyScreen, cancelFrame>>

\* confirmCancel: closes the modal and navigates the host to TeacherDashboard;
\* the session document is not written
confirmCancel(s) ==
    /\ lobbyScreen[s] = "Lobby"
    /\ showCancelModal[s]
    /\ showCancelModal' = [showCancelModal EXCEPT ![s] = FALSE]
    /\ lobbyScreen' = [lobbyScreen EXCEPT ![s] = "TeacherDashboard"]
    /\ UNCHANGED cancelFrame

----------------------------------------------------------------------------
(* JoinGameScreen *)

\* handleJoinGame from the button press to its await on updateDoc: getDocs
\* reads the collection, then the status check, the uid check and the roster
\* to write are all computed from the document that was read
handleJoinGame(c, gameCode, user, drawn) ==
    /\ screen[c] = "JoinGameScreen"
    /\ pc[c] = "idle"
    /\ IF QueryByPin(gameCode) = {}
       THEN UNCHANGED vars                                  \* "Not Found"
       ELSE LET sessionId == FirstDoc(gameCode)
                sessionData == gameSessions[sessionId]
                playerUid == IF user # NoUser THEN user ELSE GuestUid(nextGuest + 1)
                playerName == PlayerName(user, drawn)
            IN  IF sessionData.status # "lobby"
                THEN UNCHANGED vars                         \* "Game Started"
                ELSE /\ user # NoUser \/ nextGuest < MaxGuests
                     /\ nextGuest' = IF user # NoUser THEN nextGuest ELSE nextGuest + 1
                     /\ route' = [route EXCEPT ![c] = sessionId]
                     /\ IF playerUid \in Uids(sessionData.players)
                        THEN \* "Already Joined": navigate without writing
                             /\ screen' = [screen EXCEPT ![c] = "GameScreen"]
                             /\ session' = [session EXCEPT ![c] = NoDoc]
                             /\ hasSetUsername' = [hasSetUsername EXCEPT ![c] = FALSE]
                             /\ UNCHANGED <<pc, payload>>
                        ELSE /\ pc' = [pc EXCEPT ![c] = "updating"]
                             /\ payload' = [payload EXCEPT ![c] =
                                    [players |-> Append(sessionData.players,
                                                        PlayerEntry(playerUid, playerName)),
                                     uid |-> playerUid, name |-> playerName]]
                             /\ UNCHANGED <<screen, session, hasSetUsername>>
                     /\ UNCHANGED <<gameSessions, lobbyVars, build, joined, sideVars>>

\* the updateDoc of handleJoinGame is applied: the players field becomes the
\* roster computed before the await; then the client navigates to GameScreen
JoinUpdateDoc(c) ==
    /\ screen[c] = "JoinGameScreen"
    /\ pc[c] = "updating"
    /\ gameSessions' = [gameSessions EXCEPT ![route[c]].players = payload[c].players]
    /\ joined' = joined \cup {[sid |-> route[c], uid |-> payload[c].uid,
                               name |-> payload[c].name, via |-> "handleJoinGame",
                               client |-> c]}
    /\ pc' = [pc EXCEPT ![c] = "idle"]
    /\ payload' = [payload EXCEPT ![c] = NoPayload]
    /\ screen' = [screen EXCEPT ![c] = "GameScreen"]
    /\ session' = [session EXCEPT ![c] = NoDoc]
    /\ hasSetUsername' = [hasSetUsername EXCEPT ![c] = FALSE]
    /\ UNCHANGED <<lobbyVars, build, route, nextGuest, sideVars>>

----------------------------------------------------------------------------
(* GameScreen *)

\* the await on updateDoc that the three revisions share
IssueJoinWrite(c, roster, uid, name) ==
    /\ pc' = [pc EXCEPT ![c] = "updating"]
    /\ payload' = [payload EXCEPT ![c] = [players |-> roster, uid |-> uid, name |-> name]]

\* nicknames the generators of part_001 and part_002 return
AutoNicknames == {"CoolTiger", "EpicWolf"}

\* The snapshot callback is the closure of the first render (the effect's
\* dependencies are [sessionId]): in it hasSetUsername is false, username is ''
\* and session is null, whatever the screen's state is by now.  So the
\* condition of the automatic join is the setting of the delivered document
\* and, in part_002, the ref.  A device has one updateDoc in flight in the
\* model: a snapshot that arrives meanwhile only sets the state.
AutoJoinDue(c) ==
    /\ build # "GameScreen.js"
    /\ gameSessions[route[c]].nicknameGenerator
    /\ build = "part_002" => ~hasGeneratedRef[c]
    /\ pc[c] = "idle"
    /\ autoJoins[c] < MaxAutoJoins

\* generate a nickname and call the joinWithUsername of the first render, whose
\* session is null: the roster it writes is [] plus the new entry
AutoJoin(c, generated, user) ==
    /\ autoJoins' = [autoJoins EXCEPT ![c] = @ + 1]
    /\ IF build = "part_002"
       THEN /\ generated \notin RosterNames(gameSessions[route[c]].players)
            /\ hasGeneratedRef' = [hasGeneratedRef EXCEPT ![c] = TRUE]
            /\ nextGuest < MaxGuests
            /\ nextGuest' = nextGuest + 1
            /\ IssueJoinWrite(c, <<FormEntry(GuestUid(nextGuest + 1), generated)>>,
                              GuestUid(nextGuest + 1), generated)
       ELSE /\ UNCHANGED <<hasGeneratedRef, nextGuest>>
            /\ IF user = NoUser
               THEN UNCHANGED <<pc, payload>>          \* "You must be logged in"
               ELSE IssueJoinWrite(c, <<FormEntry(user, generated)>>, user, generated)

\* onSnapshot callback of GameScreen that stops after the first document
GameOnSnapshot_FirstOnly(c) ==
    /\ screen[c] = "GameScreen"
    /\ session[c] = NoDoc
    /\ session' = [session EXCEPT ![c] = gameSessions[route[c]]]
    /\ timeLeft' = IF build = "part_001"
                   THEN [timeLeft EXCEPT ![c] = QuestionSeconds]
                   ELSE timeLeft
    /\ IF AutoJoinDue(c)
       THEN \E generated \in AutoNicknames, user \in Users : AutoJoin(c, generated, user)
       ELSE UNCHANGED <<pc, payload, nextGuest, hasGeneratedRef, autoJoins>>
    /\ UNCHANGED <<gameSessions, lobbyVars, build, screen, route, hasSetUsername,
                   joined, otherScreens, nicknameGenerator>>

\* onSnapshot callback of GameScreen: setSession(docSnap.data()); part_001 also
\* sets timeLeft to settings.timePerQuestion; part_001 and part_002 generate a
\* nickname and join when the setting is on
GameOnSnapshot(c) ==
    /\ screen[c] = "GameScreen"
    /\ session[c] # gameSessions[route[c]]
    /\ session' = [session EXCEPT ![c] = gameSessions[route[c]]]
    /\ timeLeft' = IF build = "part_001"
                   THEN [timeLeft EXCEPT ![c] = QuestionSeconds]
                   ELSE timeLeft
    /\ IF AutoJoinDue(c)
       THEN \E generated \in AutoNicknames, user \in Users : AutoJoin(c, generated, user)
       ELSE UNCHANGED <<pc, payload, nextGuest, hasGeneratedRef, autoJoins>>
    /\ UNCHANGED <<gameSessions, lobbyVars, build, screen, route, hasSetUsername,
                   joined, otherScreens, nicknameGenerator>>

\* the interval of the timer effect of part_001: one second passes
timerTick(c) ==
    /\ build = "part_001"
    /\ screen[c] = "GameScreen"
    /\ timeLeft[c] > 0
    /\ timeLeft' = [timeLeft EXCEPT ![c] = @ - 1]
    /\ UNCHANGED <<gameSessions, lobbyVars, build, clientVars, nextGuest, joined,
                   otherScreens, nicknameGenerator, hasGeneratedRef, autoJoins>>

\* findIndex by uid, then replace the name of the entry found or push a new entry
UpsertPlayer(roster, uid, name) ==
    IF uid \in Uids(roster)
    THEN [i \in 1..Len(roster) |->
            IF roster[i].uid = uid THEN [roster[i] EXCEPT !.name = name] ELSE roster[i]]
    ELSE Append(roster, FormEntry(uid, name))

\* joinWithUsername of screens/GameScreen.js up to its await: no check but
\* the blank name; always a new guest uid; the roster is the screen's session state
joinWithUsername_GameScreen(c, finalName) ==
    /\ nextGuest < MaxGuests
    /\ nextGuest' = nextGuest + 1
    /\ IssueJoinWrite(c, UpsertPlayer(session[c].players, GuestUid(nextGuest + 1), finalName),
                      GuestUid(nextGuest + 1), finalName)
    /\ UNCHANGED <<hasSetUsername>>

\* joinWithUsername of part_002: as above after a name check against the
\* names in the screen's session state
joinWithUsername_part_002(c, finalName) ==
    IF finalName \in RosterNames(session[c].players)
    THEN UNCHANGED <<pc, payload, hasSetUsername, nextGuest>>   \* name-taken modal
    ELSE /\ nextGuest < MaxGuests
         /\ nextGuest' = nextGuest + 1
         /\ IssueJoinWrite(c, UpsertPlayer(session[c].players, GuestUid(nextGuest + 1), finalName),
                           GuestUid(nextGuest + 1), finalName)
         /\ UNCHANGED <<hasSetUsername>>

\* joinWithUsername of part_001: needs a signed-in user; returns without
\* writing when the uid is in the screen's session state
joinWithUsername_part_001(c, chosenName, user) ==
    IF user = NoUser
    THEN UNCHANGED <<pc, payload, hasSetUsername, nextGuest>>   \* "You must be logged in"
    ELSE IF user \in Uids(session[c].players)
    THEN /\ hasSetUsername' = [hasSetUsername EXCEPT ![c] = TRUE]
         /\ UNCHANGED <<pc, payload, nextGuest>>
    ELSE /\ IssueJoinWrite(c, Append(session[c].players, FormEntry(user, chosenName)),
                           user, chosenName)
         /\ UNCHANGED <<hasSetUsername, nextGuest>>

\* String.prototype.trim on the texts of the model: leading and trailing
\* spaces are removed
RECURSIVE TrimStart(_)
TrimStart(str) ==
    IF Len(str) > 0 /\ SubSeq(str, 1, 1) = " "
    THEN TrimStart(SubSeq(str, 2, Len(str)))
    ELSE str

RECURSIVE TrimEnd(_)
TrimEnd(str) ==
    IF Len(str) > 0 /\ SubSeq(str, Len(str), Len(str)) = " "
    THEN TrimEnd(SubSeq(str, 1, Len(str) - 1))
    ELSE str

Trim(str) == TrimEnd(TrimStart(str))

\* the username form's button: shown once the first snapshot has arrived and
\* until hasSetUsername, disabled while the text is blank; the field holds at
\* most maxLength characters.  GameScreen.js and part_002 join with the
\* trimmed text, part_001 with the text as typed
joinWithUsername(c, username, user) ==
    /\ screen[c] = "GameScreen"
    /\ session[c] # NoDoc
    /\ ~hasSetUsername[c]
    /\ pc[c] = "idle"
    /\ Len(username) <= MaxNameLength
    /\ Trim(username) # ""
    /\ CASE build = "GameScreen.js" -> joinWithUsername_GameScreen(c, Trim(username))
         [] build = "part_002" -> joinWithUsername_part_002(c, Trim(username))
         [] build = "part_001" -> joinWithUsername_part_001(c, username, user)
    /\ UNCHANGED <<gameSessions, lobbyVars, build, screen, route, session, joined, sideVars>>

\* the updateDoc of joinWithUsername is applied, then setHasSetUsername(true)
UsernameUpdateDoc(c) ==
    /\ screen[c] = "GameScreen"
    /\ pc[c] = "updating"
    /\ gameSessions' = [gameSessions EXCEPT ![route[c]].players = payload[c].players]
    /\ joined' = joined \cup {[sid |-> route[c], uid |-> payload[c].uid,
                               name |-> payload[c].name, via |-> "joinWithUsername",
                               client |-> c]}
    /\ pc' = [pc EXCEPT ![c] = "idle"]
    /\ payload' = [payload EXCEPT ![c] = NoPayload]
    /\ hasSetUsername' = [hasSetUsername EXCEPT ![c] = TRUE]
    /\ UNCHANGED <<lobbyVars, build, screen, route, session, nextGuest, sideVars>>

\* indexes of the four answers of the dummy question that the onSnapshot
\* callback of part_001 sets as currentQuestion
AnswerIndexes == 0..3

\* submitAnswer of part_001 (the answer buttons of the main game UI, shown once
\* hasSetUsername): logs the index and shows the alert "Answer Submitted";
\* it reads and writes nothing else
submitAnswer(c, index) ==
    /\ build = "part_001"
    /\ screen[c] = "GameScreen"
    /\ session[c] # NoDoc
    /\ hasSetUsername[c]
    /\ index \in AnswerIndexes
    /\ submitted[c] < MaxSubmits
    /\ submitted' = [submitted EXCEPT ![c] = @ + 1]
    /\ UNCHANGED <<gameSessions, lobbyVars, build, clientVars, nextGuest, joined,
                   showCancelModal, lastPin, codeInput, codeCheck,
                   existingNames, attempts, nickname, autoVars,
                   hostMenuVars, menuVars>>

----------------------------------------------------------------------------
(* The PIN as text: HostGameMenu draws it, JoinGameScreen's field takes it *)

DecimalDigits == <<"0", "1", "2", "3", "4", "5", "6", "7", "8", "9">>

\* Number.prototype.toString of a non-negative integer
RECURSIVE ToDecimal(_)
ToDecimal(n) ==
    IF n < 10 THEN DecimalDigits[n + 1]
    ELSE ToDecimal(n \div 10) \o DecimalDigits[(n % 10) + 1]

\* Math.floor(Math.random() * 1000000): the range 000000 to 999999, not padded
PinNumber_FromZero(k) == (k * 1000000) \div RandomSteps

\* Math.floor(100000 + Math.random() * 900000) with Math.random() = k / RandomSteps
PinNumber(k) == 100000 + (k * 900000) \div RandomSteps

IsDigit(ch) == \E d \in 1..10 : DecimalDigits[d] = ch

\* text.replace(/[^0-9]/g, "")
RECURSIVE StripNonDigits(_)
StripNonDigits(text) ==
    IF Len(text) = 0 THEN text
    ELSE LET first == SubSeq(text, 1, 1)
             rest == StripNonDigits(SubSeq(text, 2, Len(text)))
         IN  IF IsDigit(first) THEN first \o rest ELSE rest

\* texts a player types or pastes into the code field, besides the PIN shown
CodeTexts == {"12ab56", "1 2345", "123456", "12345", "1234567"}

pinFrame == <<gameSessions, lobbyVars, build, clientVars, nextGuest, joined,
              showCancelModal, submitted, existingNames, attempts, nickname, autoVars,
                   hostMenuVars, menuVars>>

\* the first statement of launchLobby: the pin it will store
drawPin(k) ==
    /\ k \in 0..(RandomSteps - 1)
    /\ lastPin' = ToDecimal(PinNumber(k))
    /\ UNCHANGED <<codeInput, codeCheck, pinFrame>>

\* handleInputChange: onChangeText of the code field, whose maxLength is 6
handleInputChange(text) ==
    /\ ~isJoining
    /\ Len(text) <= CodeLength
    /\ codeInput' = StripNonDigits(text)
    /\ codeCheck' = "unchecked"
    /\ UNCHANGED <<lastPin, pinFrame>>

\* the length check that opens handleJoinGame: "Invalid Code" unless six characters
checkGameCode ==
    /\ codeCheck = "unchecked"
    /\ codeCheck' = IF Len(codeInput) # CodeLength THEN "Invalid Code" ELSE "accepted"
    /\ UNCHANGED <<lastPin, codeInput, pinFrame>>

NextPinText ==
    \/ \E k \in 0..(RandomSteps - 1) : drawPin(k)
    \/ \E text \in CodeTexts \cup {lastPin} : handleInputChange(text)
    \/ checkGameCode

SpecPinText == Init /\ [][NextPinText]_vars

----------------------------------------------------------------------------
(* JoinGameScreen: the Join Game button and the calls of handleJoinGame *)

MaxInFlight == 2

\* how a call of handleJoinGame ends: the three alerts of the try block, the two
\* navigations to GameScreen, and the alert of the catch block
JoinOutcomes == {"Not Found", "Game Started", "Already Joined", "Joined", "Error"}

joinFrame == <<gameSessions, lobbyVars, build, clientVars, nextGuest, joined,
               showCancelModal, submitted, lastPin, codeInput,
               existingNames, attempts, nickname, autoVars, hostMenuVars,
               dashboardVars, createVars>>

\* onPress={handleJoinGame} of a button that is never disabled
pressJoinGame_NeverDisabled ==
    /\ inFlight < MaxInFlight
    /\ IF Len(codeInput) # CodeLength
       THEN /\ codeCheck' = "Invalid Code"
            /\ joinAlert' = "Invalid Code"
            /\ UNCHANGED <<isJoining, inFlight>>
       ELSE /\ codeCheck' = "accepted"
            /\ isJoining' = TRUE
            /\ inFlight' = inFlight + 1
            /\ UNCHANGED joinAlert
    /\ UNCHANGED joinFrame

\* onPress={handleJoinGame}, disabled={isJoining}: handleJoinGame up to its
\* first await: the length check returns at once, otherwise setIsJoining(true)
pressJoinGame ==
    /\ ~isJoining
    /\ inFlight < MaxInFlight
    /\ IF Len(codeInput) # CodeLength
       THEN /\ codeCheck' = "Invalid Code"
            /\ joinAlert' = "Invalid Code"
            /\ UNCHANGED <<isJoining, inFlight>>
       ELSE /\ codeCheck' = "accepted"
            /\ isJoining' = TRUE
            /\ inFlight' = inFlight + 1
            /\ UNCHANGED joinAlert
    /\ UNCHANGED joinFrame

\* the rest of handleJoinGame: whichever way the try block ends, the finally
\* block runs setIsJoining(false)
handleJoinGameReturns(outcome) ==
    /\ inFlight > 0
    /\ joinAlert' = outcome
    /\ isJoining' = FALSE
    /\ inFlight' = inFlight - 1
    /\ UNCHANGED <<codeCheck, joinFrame>>

NextJoining ==
    \/ \E k \in {0, RandomSteps - 1} : drawPin(k)
    \/ \E text \in CodeTexts \cup {lastPin} : handleInputChange(text)
    \/ pressJoinGame
    \/ \E outcome \in JoinOutcomes : handleJoinGameReturns(outcome)

SpecJoining == Init /\ [][NextJoining]_vars

----------------------------------------------------------------------------
(* TeacherDashboard: the delete buttons, the confirmation modal, confirmDelete *)

MaxDeletions == 3

dashboardFrame == <<gameSessions, lobbyVars, build, clientVars, nextGuest, joined,
                    showCancelModal, submitted, lastPin, codeInput, codeCheck,
                    existingNames, attempts, nickname, autoVars, hostMenuVars,
                    joinScreenVars, createVars>>

\* the sequence without its i-th element
RemoveAt(seq, i) == SubSeq(seq, 1, i - 1) \o SubSeq(seq, i + 1, Len(seq))

\* the delete button of a listed game, disabled={deletingIds.has(item.id)}
openDeleteModal(gameId) ==
    /\ deleteModal = NoGame
    /\ gameId \in games
    /\ gameId \notin deletingIds
    /\ deleteModal' = gameId
    /\ UNCHANGED <<games, gameDocs, deletingIds, deletions, dashboardFrame>>

\* closeDeleteModal: the Cancel button of the modal
closeDeleteModal ==
    /\ deleteModal # NoGame
    /\ deleteModal' = NoGame
    /\ UNCHANGED <<games, gameDocs, deletingIds, deletions, dashboardFrame>>

\* confirmDelete up to its first await: returns when the game is in deletingIds,
\* otherwise adds it, closes the modal and asks the store for the document. The
\* call keeps the deletingIds of the render that created it
confirmDelete ==
    /\ deleteModal # NoGame
    /\ Len(deletions) < MaxDeletions
    /\ IF deleteModal \in deletingIds
       THEN UNCHANGED <<deletingIds, deleteModal, deletions>>
       ELSE /\ deletingIds' = deletingIds \cup {deleteModal}
            /\ deleteModal' = NoGame
            /\ deletions' = Append(deletions, [gameId |-> deleteModal,
                                               captured |-> deletingIds])
    /\ UNCHANGED <<games, gameDocs, dashboardFrame>>

\* the rest of a call of confirmDelete: getDoc throws when the document is gone
\* and deleteDoc may fail; on success the game leaves the store and the list;
\* the finally block sets deletingIds to the set the call kept, less its game
confirmDeleteReturns(i, storeFails) ==
    /\ i \in 1..Len(deletions)
    /\ LET gameId == deletions[i].gameId
       IN  /\ IF ~storeFails /\ gameId \in gameDocs
              THEN /\ gameDocs' = gameDocs \ {gameId}
                   /\ games' = games \ {gameId}
              ELSE UNCHANGED <<games, gameDocs>>
           /\ deletingIds' = deletions[i].captured \ {gameId}
    /\ deletions' = RemoveAt(deletions, i)
    /\ UNCHANGED <<deleteModal, dashboardFrame>>

NextDashboard ==
    \/ \E gameId \in GameIds : openDeleteModal(gameId)
    \/ closeDeleteModal
    \/ confirmDelete
    \/ \E i \in 1..MaxDeletions, storeFails \in BOOLEAN : confirmDeleteReturns(i, storeFails)

SpecDashboard == Init /\ [][NextDashboard]_vars

----------------------------------------------------------------------------
(* CreateGameMenu: the title field, the question list, saveGame *)

MaxQuestions == 2

\* texts typed into the title field
TitleTexts == {"", "  ", " Quiz ", "Q"}

\* the question addQuestion appends
newQ == [type |-> "multipleChoice", question |-> "", timeLimit |-> 20, points |-> "standard"]

createFrame == <<gameSessions, lobbyVars, build, clientVars, nextGuest, joined,
                 showCancelModal, submitted, lastPin, codeInput, codeCheck,
                 existingNames, attempts, nickname, autoVars, hostMenuVars,
                 joinScreenVars, dashboardVars>>

\* onChangeText={setGameTitle}
setGameTitle(text) ==
    /\ gameTitle' = text
    /\ UNCHANGED <<questions, savedGames, createFrame>>

\* addQuestion: setQuestions(prev => [...prev, newQ])
addQuestion ==
    /\ Len(questions) < MaxQuestions
    /\ questions' = Append(questions, newQ)
    /\ UNCHANGED <<gameTitle, savedGames, createFrame>>

\* deleteQuestion: setQuestions(prev => prev.filter((_, i) => i !== index))
deleteQuestion(index) ==
    /\ index \in 1..Len(questions)
    /\ questions' = SubSeq(questions, 1, index - 1) \o SubSeq(questions, index + 1, Len(questions))
    /\ UNCHANGED <<gameTitle, savedGames, createFrame>>

\* the document saveGame hands to addDoc or updateDoc
gameData ==
    [title |-> Trim(gameTitle), questions |-> questions, numQuestions |-> Len(questions)]

\* saveGame without the alert for a blank title
saveGame_NoTitleCheck(storeFails) ==
    /\ IF Len(questions) = 0 \/ storeFails
       THEN UNCHANGED <<gameTitle, questions, savedGames>>
       ELSE /\ savedGames' = savedGames \cup {gameData}
            /\ gameTitle' = ""
            /\ questions' = <<>>
    /\ UNCHANGED createFrame

\* saveGame: the two alerts return before anything is written; a write that
\* succeeded leaves the screen, which is mounted anew for the next game; a
\* write that failed alerts and leaves the form as it is
saveGame(storeFails) ==
    /\ IF Trim(gameTitle) = "" \/ Len(questions) = 0 \/ storeFails
       THEN UNCHANGED <<gameTitle, questions, savedGames>>
       ELSE /\ savedGames' = savedGames \cup {gameData}
            /\ gameTitle' = ""
            /\ questions' = <<>>
    /\ UNCHANGED createFrame

NextCreate ==
    \/ \E text \in TitleTexts : setGameTitle(text)
    \/ addQuestion
    \/ \E index \in 1..MaxQuestions : deleteQuestion(index)
    \/ \E storeFails \in BOOLEAN : saveGame(storeFails)

SpecCreate == Init /\ [][NextCreate]_vars

----------------------------------------------------------------------------
(* HostGameMenu: the number fields of the settings and what launchLobby stores *)

HostMenus == {"HostGameMenu.js", "part_007"}

NaN == [nan |-> TRUE, value |-> 0]

IsWhiteSpace(ch) == ch = " "

\* the longest prefix of decimal digits
RECURSIVE DigitPrefix(_)
DigitPrefix(text) ==
    IF Len(text) = 0 \/ ~IsDigit(SubSeq(text, 1, 1)) THEN ""
    ELSE SubSeq(text, 1, 1) \o DigitPrefix(SubSeq(text, 2, Len(text)))

\* the number a string of decimal digits denotes
RECURSIVE DecimalValue(_)
DecimalValue(digits) ==
    IF Len(digits) = 0 THEN 0
    ELSE LET last == SubSeq(digits, Len(digits), Len(digits))
         IN  10 * DecimalValue(SubSeq(digits, 1, Len(digits) - 1))
               + ((CHOOSE d \in 1..10 : DecimalDigits[d] = last) - 1)

\* parseInt(text, 10): leading white space is skipped, a sign is read, the digits
\* that follow are the number and whatever comes after them is ignored; NaN
\* when no digit follows
RECURSIVE parseInt(_)
parseInt(text) ==
    IF Len(text) = 0 THEN NaN
    ELSE LET first == SubSeq(text, 1, 1)
             rest == SubSeq(text, 2, Len(text))
         IN  IF IsWhiteSpace(first) THEN parseInt(rest)
             ELSE LET negative == first = "-"
                      digits == DigitPrefix(IF first \in {"-", "+"} THEN rest ELSE text)
                  IN  IF Len(digits) = 0 THEN NaN
                      ELSE [nan |-> FALSE,
                            value |-> IF negative THEN 0 - DecimalValue(digits)
                                      ELSE DecimalValue(digits)]

\* parseInt(text, 10) || fallback: NaN and 0 are falsy
OrDefault(parsed, fallback) ==
    IF parsed.nan \/ parsed.value = 0 THEN fallback ELSE parsed.value

\* validateSettings of part_007
validateSettings ==
    LET duration == parseInt(settingsInput.gameDuration)
        players == parseInt(settingsInput.maxPlayers)
        time == parseInt(settingsInput.timePerQuestion)
    IN  /\ ~(duration.nan \/ duration.value < 1 \/ duration.value > 180)
        /\ ~(players.nan \/ players.value < 1 \/ players.value > 500)
        /\ ~(time.nan \/ time.value < 10 \/ time.value > 300)

\* texts typed into the fields: at most 3, 4 and 3 characters
DurationTexts == {"10", "0", "181", "abc"}
PlayersTexts == {"30", "-5", "501", ""}
TimeTexts == {"60", "5", "12x", "301"}

settingsFrame == <<gameSessions, lobbyVars, build, clientVars, nextGuest, joined,
                   showCancelModal, submitted, lastPin, codeInput, codeCheck,
                   existingNames, attempts, nickname, autoVars, menuVars>>

\* onChangeText={setGameDuration}, maxLength={3}
setGameDuration(text) ==
    /\ Len(text) <= 3
    /\ settingsInput' = [settingsInput EXCEPT !.gameDuration = text]
    /\ UNCHANGED <<settingsDoc, settingsFrame>>

\* onChangeText={setMaxPlayers}, maxLength={4}
setMaxPlayers(text) ==
    /\ Len(text) <= 4
    /\ settingsInput' = [settingsInput EXCEPT !.maxPlayers = text]
    /\ UNCHANGED <<settingsDoc, settingsFrame>>

\* onChangeText={setTimePerQuestion}, maxLength={3}
setTimePerQuestion(text) ==
    /\ Len(text) <= 3
    /\ settingsInput' = [settingsInput EXCEPT !.timePerQuestion = text]
    /\ UNCHANGED <<settingsDoc, settingsFrame>>

\* the settings launchLobby of HostGameMenu.js hands to addDoc: no validation
launchSettings_HostGameMenu ==
    [created |-> TRUE, menu |-> "HostGameMenu.js",
     gameDuration |-> OrDefault(parseInt(settingsInput.gameDuration), 10),
     maxPlayers |-> OrDefault(parseInt(settingsInput.maxPlayers), 30),
     timePerQuestion |-> OrDefault(parseInt(settingsInput.timePerQuestion), 60)]

\* the settings launchLobby of part_007 hands to addDoc once validateSettings passed
launchSettings_part_007 ==
    [created |-> TRUE, menu |-> "part_007",
     gameDuration |-> parseInt(settingsInput.gameDuration).value,
     maxPlayers |-> parseInt(settingsInput.maxPlayers).value,
     timePerQuestion |-> parseInt(settingsInput.timePerQuestion).value]

\* launchLobby, the settings part: what the created session document carries
launchLobbySettings(menu) ==
    /\ menu = "part_007" => validateSettings
    /\ settingsDoc' = IF menu = "part_007" THEN launchSettings_part_007
                      ELSE launchSettings_HostGameMenu
    /\ UNCHANGED <<settingsInput, settingsFrame>>

NextSettings ==
    \/ \E text \in DurationTexts : setGameDuration(text)
    \/ \E text \in PlayersTexts : setMaxPlayers(text)
    \/ \E text \in TimeTexts : setTimePerQuestion(text)
    \/ \E menu \in HostMenus : launchLobbySettings(menu)

SpecSettings == Init /\ [][NextSettings]_vars

----------------------------------------------------------------------------
(* generateUniqueNickname of part_002 *)

\* the word lists, cut to two words each
adjectives == <<"Cool", "Epic">>
nouns == <<"Tiger", "Wolf">>

\* values of Math.floor(Math.random() * 10000) the model draws for the fallback
FallbackNumbers == {7, 8}

\* names a roster can hold when the generator is called: generated nicknames
\* and the name of a guest who came through the join screen
NamePool == {adjectives[a] \o nouns[n] : a \in 1..Len(adjectives), n \in 1..Len(nouns)}
                \cup GuestNames

nicknameFrame == <<gameSessions, lobbyVars, build, clientVars, nextGuest, joined,
                   showCancelModal, submitted, lastPin, codeInput, codeCheck, autoVars,
                   hostMenuVars, menuVars>>

\* a call of generateUniqueNickname(existingNames): attempts = 0
generateUniqueNickname(existing) ==
    /\ existing \subseteq NamePool
    /\ existingNames' = existing
    /\ attempts' = 0
    /\ nickname' = ""
    /\ UNCHANGED nicknameFrame

\* one turn of the while loop: draw a candidate, return it if no existing name
\* equals it, else count the attempt
sampleCandidate(a, n) ==
    /\ nickname = ""
    /\ attempts < maxAttempts
    /\ LET candidate == adjectives[a] \o nouns[n]
       IN  IF candidate \notin existingNames
           THEN nickname' = candidate /\ UNCHANGED attempts
           ELSE attempts' = attempts + 1 /\ UNCHANGED nickname
    /\ UNCHANGED <<existingNames, nicknameFrame>>

\* after the loop: return "Player" + Math.floor(Math.random() * 10000)
returnFallback(number) ==
    /\ nickname = ""
    /\ attempts >= maxAttempts
    /\ nickname' = "Player" \o ToDecimal(number)
    /\ UNCHANGED <<existingNames, attempts, nicknameFrame>>

NextNickname ==
    \/ \E existing \in SUBSET NamePool : generateUniqueNickname(existing)
    \/ \E a \in 1..Len(adjectives), n \in 1..Len(nouns) : sampleCandidate(a, n)
    \/ \E number \in FallbackNumbers : returnFallback(number)

SpecNickname == Init /\ [][NextNickname]_vars

----------------------------------------------------------------------------
Next ==
    \/ \E s \in 1..LobbySessions, pin \in Pins, m \in MaxPlayersChoices :
          launchLobby(s, pin, m)
    \/ \E s \in SessionIds : LobbyOnSnapshot(s)
    \/ \E s \in SessionIds, isHost \in BOOLEAN : toggleLobbyLock(s, isHost)
    \/ \E s \in SessionIds, isHost \in BOOLEAN : handleStartGame(s, isHost)
    \/ \E s \in SessionIds : StartUpdateDoc(s)
    \/ \E c \in Clients, code \in Pins, user \in Users, drawn \in GuestNames :
          handleJoinGame(c, code, user, drawn)
    \/ \E c \in Clients : JoinUpdateDoc(c)
    \/ \E c \in Clients : GameOnSnapshot(c)
    \/ \E c \in Clients, n \in Names, user \in Users : joinWithUsername(c, n, user)
    \/ \E c \in Clients : UsernameUpdateDoc(c)

Spec == Init /\ [][Next]_vars

\* PIN allocation and resolution: several sessions, launched by any hosts, and
\* the join screen resolving PINs
NextPin ==
    \/ \E s \in SessionIds, pin \in Pins, m \in MaxPlayersChoices : launchLobby(s, pin, m)
    \/ \E s \in SessionIds : LobbyOnSnapshot(s)
    \/ \E s \in SessionIds, isHost \in BOOLEAN : handleStartGame(s, isHost)
    \/ \E s \in SessionIds : StartUpdateDoc(s)
    \/ \E c \in 1..PinClients, code \in Pins, user \in Users, drawn \in GuestNames :
          handleJoinGame(c, code, user, drawn)
    \/ \E c \in 1..PinClients : JoinUpdateDoc(c)

SpecPin == Init /\ [][NextPin]_vars

\* the host leaving the lobby: one session, its host's buttons, and the players
\* who join it and wait on GameScreen
NextCancel ==
    \/ \E s \in 1..LobbySessions, pin \in Pins, m \in MaxPlayersChoices :
          launchLobby(s, pin, m)
    \/ \E s \in SessionIds : LobbyOnSnapshot(s)
    \/ \E s \in SessionIds : handleStartGame(s, TRUE)
    \/ \E s \in SessionIds : StartUpdateDoc(s)
    \/ \E s \in SessionIds : handleCancel(s)
    \/ \E s \in SessionIds : cancelModalCancel(s)
    \/ \E s \in SessionIds : confirmCancel(s)
    \/ \E c \in Clients, code \in Pins, user \in Users, drawn \in GuestNames :
          handleJoinGame(c, code, user, drawn)
    \/ \E c \in Clients : JoinUpdateDoc(c)
    \/ \E c \in Clients : GameOnSnapshot(c)

SpecCancel == Init /\ [][NextCancel]_vars

\* GameScreen from the username form to the answer buttons: one session, its
\* start, and the devices that join it, type a name and press the answer buttons
NextGameScreen ==
    \/ \E s \in 1..LobbySessions, pin \in Pins, m \in MaxPlayersChoices :
          launchLobby(s, pin, m)
    \/ \E s \in SessionIds : LobbyOnSnapshot(s)
    \/ \E s \in SessionIds : handleStartGame(s, TRUE)
    \/ \E s \in SessionIds : StartUpdateDoc(s)
    \/ \E c \in 1..GameScreenClients, code \in Pins, user \in Users, drawn \in GuestNames :
          handleJoinGame(c, code, user, drawn)
    \/ \E c \in 1..GameScreenClients : JoinUpdateDoc(c)
    \/ \E c \in 1..GameScreenClients : GameOnSnapshot(c)
    \/ \E c \in 1..GameScreenClients, n \in Usernames, user \in Users :
          joinWithUsername(c, n, user)
    \/ \E c \in 1..GameScreenClients : UsernameUpdateDoc(c)
    \/ \E c \in 1..GameScreenClients, index \in AnswerIndexes : submitAnswer(c, index)

SpecGameScreen == Init /\ [][NextGameScreen]_vars

\* the nickname generator: the host's switch, one session, and the devices that
\* join it and open GameScreen
NextAutoJoin ==
    \/ \E value \in BOOLEAN : setNicknameGenerator(value)
    \/ \E s \in 1..LobbySessions, pin \in Pins, m \in MaxPlayersChoices :
          launchLobby(s, pin, m)
    \/ \E c \in 1..AutoClients, code \in Pins, user \in Users, drawn \in GuestNames :
          handleJoinGame(c, code, user, drawn)
    \/ \E c \in 1..AutoClients : JoinUpdateDoc(c)
    \/ \E c \in 1..AutoClients : GameOnSnapshot(c)
    \/ \E c \in 1..AutoClients : UsernameUpdateDoc(c)

SpecAutoJoin == Init /\ [][NextAutoJoin]_vars

\* the countdown of part_001: one session, the devices that join it, their
\* listeners and the seconds of their timers
NextTimer ==
    \/ \E s \in 1..LobbySessions, pin \in Pins, m \in MaxPlayersChoices :
          launchLobby(s, pin, m)
    \/ \E c \in Clients, code \in Pins, user \in Users, drawn \in GuestNames :
          handleJoinGame(c, code, user, drawn)
    \/ \E c \in Clients : JoinUpdateDoc(c)
    \/ \E c \in Clients : GameOnSnapshot(c)
    \/ \E c \in Clients : timerTick(c)

SpecTimer == Init /\ [][NextTimer]_vars

\* the snapshot feed: one session, its host's writes, the devices that join
\* it, and the listeners of the host's lobby and of the players' GameScreen.
\* A listener that is registered is called with the current document after
\* every change: weak fairness of the two callbacks
NextSnapshot ==
    \/ \E s \in 1..LobbySessions, pin \in Pins, m \in MaxPlayersChoices :
          launchLobby(s, pin, m)
    \/ \E s \in SessionIds : LobbyOnSnapshot(s)
    \/ \E s \in SessionIds : toggleLobbyLock(s, TRUE)
    \/ \E s \in SessionIds : handleStartGame(s, TRUE)
    \/ \E s \in SessionIds : StartUpdateDoc(s)
    \/ \E c \in Clients, code \in Pins, user \in Users, drawn \in GuestNames :
          handleJoinGame(c, code, user, drawn)
    \/ \E c \in Clients : JoinUpdateDoc(c)
    \/ \E c \in Clients : GameOnSnapshot(c)

SpecSnapshot ==
    /\ Init
    /\ [][NextSnapshot]_vars
    /\ \A c \in Clients : WF_vars(GameOnSnapshot(c))
    /\ \A s \in SessionIds : WF_vars(LobbyOnSnapshot(s))

----------------------------------------------------------------------------
(* Properties *)

Players(s) == gameSessions[s].players
Status(s) == gameSessions[s].status
EntriesOf(roster, uid) == {i \in 1..Len(roster) : roster[i].uid = uid}
JoinsOf(s) == {j \in joined : j.sid = s}
AllJoinsCompleted == \A c \in Clients : pc[c] = "idle"
DistinctJoinNames(s) == \A j1, j2 \in JoinsOf(s) : j1 # j2 => j1.name # j2.name

\* C1: when the joins of a session used distinct names and all have completed,
\* the stored roster holds exactly one entry for every join that reported
\* success (no join's entry is overwritten by another join's write).
C1_NoLostJoin ==
    \A s \in SessionIds :
        (Exists(s) /\ AllJoinsCompleted /\ DistinctJoinNames(s)) =>
            \A j \in JoinsOf(s) : Cardinality(EntriesOf(Players(s), j.uid)) = 1

\* C2: of the joins made from the lobby form (part_002) with one name in one
\* session, at most one reports success.
C2_OneJoinPerName ==
    build = "part_002" =>
        \A j1, j2 \in joined :
            (j1.via = "joinWithUsername" /\ j2.via = "joinWithUsername"
             /\ j1.sid = j2.sid /\ j1.name = j2.name) => j1 = j2

\* C3: a step that adds a player to a roster is taken only while the stored
\* status of that session is lobby.
C3_JoinOnlyInLobby ==
    [][\A s \in SessionIds :
        (Exists(s) /\ Uids(gameSessions'[s].players) \ Uids(Players(s)) # {})
            => Status(s) = "lobby"]_vars

\* C4: the roster size never exceeds settings.maxPlayers.
C4_RosterWithinCapacity ==
    \A s \in SessionIds : Exists(s) => Len(Players(s)) <= gameSessions[s].maxPlayers

\* C5: the status goes from lobby to playing only by the updateDoc of a start
\* issued by the host, only when the stored roster has a player, and the step
\* leaves currentQuestionIndex at 0.
C5_StartByHostWithPlayers ==
    [][\A s \in SessionIds :
        (Exists(s) /\ Status(s) = "lobby" /\ gameSessions'[s].status = "playing") =>
            /\ pendingStart[s] # <<>>
            /\ Head(pendingStart[s]) = TRUE
            /\ pendingStart'[s] = Tail(pendingStart[s])
            /\ Len(Players(s)) >= 1
            /\ gameSessions'[s].currentQuestionIndex = 0]_vars

\* a start has been applied to a session with players
C5_Witness ==
    \E s \in SessionIds :
        /\ Exists(s) /\ Status(s) = "playing" /\ lobbyScreen[s] = "PlayGameScreen"
        /\ Len(Players(s)) >= 1 /\ gameSessions[s].currentQuestionIndex = 0

\* C6: a start completes with success (the host is navigated to the play
\* screen) only if the stored status was still lobby when it was applied.
C6_StartOnlyFromLobby ==
    [][\A s \in SessionIds :
        (Exists(s) /\ Len(pendingStart'[s]) < Len(pendingStart[s])
         /\ lobbyScreen'[s] = "PlayGameScreen") => Status(s) = "lobby"]_vars

StatusRank(st) == CASE st = "lobby" -> 0 [] st = "playing" -> 1 [] st = "ended" -> 2

\* C7: the status of a session never moves backwards along lobby, playing,
\* ended, and a session document is never removed.
C7_StatusForwardOnly ==
    [][\A s \in SessionIds :
        Exists(s) => /\ gameSessions'[s] # NoDoc
                     /\ StatusRank(gameSessions'[s].status) >= StatusRank(Status(s))]_vars

\* a session that is playing has since been written by a join and by a
\* second start
C7_Witness ==
    \E s \in SessionIds :
        /\ Exists(s) /\ Status(s) = "playing" /\ pendingStart[s] = <<>>
        /\ \E j \in JoinsOf(s) : j.via = "joinWithUsername"
        /\ Len(Players(s)) >= 2

\* C8: no two sessions that are not ended hold the same PIN.
C8_PinUnique ==
    \A s1, s2 \in SessionIds :
        (Exists(s1) /\ Exists(s2) /\ s1 # s2
         /\ Status(s1) # "ended" /\ Status(s2) # "ended")
            => gameSessions[s1].pin # gameSessions[s2].pin

\* C9: the PIN of every session that is not ended resolves, on the join
\* screen, to that session.
C9_PinResolvesToItsSession ==
    \A s \in SessionIds :
        (Exists(s) /\ Status(s) # "ended") => FirstDoc(gameSessions[s].pin) = s

\* C10: a uid in the roster of a session that is not ended is still in the
\* roster after every step.
C10_PlayerStays ==
    [][\A s \in SessionIds :
        (Exists(s) /\ Status(s) # "ended") =>
            Uids(Players(s)) \subseteq Uids(gameSessions'[s].players)]_vars

\* C11: under part_002 the lobby form accepts a join (issues its roster write)
\* only with a name that no player of the stored roster has at the time of the
\* call; a name in the stored roster is rejected and nothing is written.
C11_TakenNameRejected ==
    [][build = "part_002" =>
        \A c \in Clients :
            (screen[c] = "GameScreen" /\ pc[c] = "idle" /\ pc'[c] = "updating") =>
                payload'[c].name \notin RosterNames(Players(route[c]))]_vars

\* C12: a join made with a uid that is in the stored roster of the session
\* issues no roster write (the roster stays as it is, no entry is added or
\* rewritten); the client goes on to the game.
C12_RejoinWritesNothing ==
    [][\A c \in Clients :
        (pc[c] = "idle" /\ pc'[c] = "updating") =>
            payload'[c].uid \notin Uids(Players(route'[c]))]_vars

\* C13: once the host has confirmed Cancel and left the lobby for
\* TeacherDashboard, the stored status of the session is a terminal one (ended
\* or abandoned), which is what the snapshot of every waiting player delivers.
C13_CancelEndsSession ==
    \A s \in SessionIds :
        lobbyScreen[s] = "TeacherDashboard" => Status(s) \in {"ended", "abandoned"}

\* C14: submitAnswer acknowledges an answer as submitted only while the
\* question is active, that is while the stored status of the session is
\* playing; at any other time the call is refused and nothing changes.
C14_AnswerOnlyWhilePlaying ==
    [][\A c \in Clients :
        submitted'[c] > submitted[c] => Status(route[c]) = "playing"]_vars

\* C15: for one player and one question at most one call of submitAnswer is
\* acknowledged as submitted; a second call is refused as already submitted.
C15_OneAnswerPerQuestion ==
    \A c \in Clients : submitted[c] <= 1

ScoresKept(before, after) ==
    \A i \in 1..Len(before), k \in 1..Len(after) :
        before[i].uid = after[k].uid => after[k].score >= before[i].score

\* C16: no step (join, start, roster write) lowers the score stored for a
\* player: a uid that is in the roster before and after a step has a score at
\* least as high after it.
C16_ScoreNeverDecreases ==
    [][\A s \in SessionIds :
        Exists(s) => ScoresKept(Players(s), gameSessions'[s].players)]_vars

\* a player who joined from the join screen is still in the roster, with its
\* score, after the roster was rewritten by a join from the lobby form and the
\* game was started
C16_Witness ==
    \E s \in SessionIds :
        /\ Status(s) = "playing"
        /\ \E j1, j2 \in JoinsOf(s) :
              /\ j1.via = "handleJoinGame" /\ j2.via = "joinWithUsername"
              /\ j1.uid # j2.uid
              /\ {j1.uid, j2.uid} \subseteq Uids(Players(s))
        /\ \A i \in 1..Len(Players(s)) : Players(s)[i].score = 0

\* C17: every name stored in a roster has, trimmed, between 3 and 20
\* characters; a join with a shorter or longer name is refused.
C17_NameLengthInRange ==
    \A s \in SessionIds :
        Exists(s) =>
            \A i \in 1..Len(Players(s)) :
                /\ Len(Trim(Players(s)[i].name)) >= MinNameLength
                /\ Len(Trim(Players(s)[i].name)) <= MaxNameLength

\* C18: a press of Join goes on (issues a roster write, or navigates to the
\* game) only for a PIN that a session holds and that no session that has left
\* the lobby holds; for any other PIN nothing is written and the client stays
\* on the join screen.
C18_JoinOnlyByLobbyPin ==
    [][\A c \in Clients :
        (screen[c] = "JoinGameScreen" /\ pc[c] = "idle"
         /\ (pc'[c] = "updating" \/ screen'[c] = "GameScreen")) =>
            /\ Exists(route'[c])
            /\ \A s \in SessionIds :
                  (Exists(s) /\ gameSessions[s].pin = gameSessions[route'[c]].pin)
                      => Status(s) = "lobby"]_vars

\* C19: the pin launchLobby draws is a text of exactly six decimal digits:
\* the code field of the join screen leaves it as it is (nothing is stripped)
\* and its length check accepts it.
C19_PinIsSixDigits ==
    lastPin # "" =>
        /\ Len(lastPin) = CodeLength
        /\ StripNonDigits(lastPin) = lastPin
        /\ codeInput = lastPin => codeCheck # "Invalid Code"

\* the pin drawn was typed into the code field and passed the length check
C19_Witness ==
    lastPin # "" /\ codeInput = lastPin /\ codeCheck = "accepted"

\* C20: generateUniqueNickname makes at most 20 resampling attempts, and the
\* name it returns, the fallback included, is not one of the existing names.
C20_NicknameUnique ==
    /\ attempts <= maxAttempts
    /\ nickname # "" => nickname \notin existingNames

\* the stored document of the session a device was navigated with
StoredFor(c) == IF route[c] \in SessionIds THEN gameSessions[route[c]] ELSE NoDoc

\* C21: every listener of a session is eventually given the stored document:
\* a player's GameScreen comes to hold the stored session (roster and status),
\* and the host's lobby the stored roster and lock, whenever they have fallen
\* behind a write; with no further write they stay equal to the store.
C21_SnapshotsDelivered ==
    /\ \A c \in Clients :
          [](screen[c] = "GameScreen" => <>(session[c] = StoredFor(c)))
    /\ \A s \in SessionIds :
          [](lobbyScreen[s] \in {"Lobby", "PlayGameScreen"} =>
                <>(/\ Exists(s)
                   /\ lobbyPlayers[s] = Players(s)
                   /\ lobbyLocked[s] = gameSessions[s].isLobbyLocked))

\* a player's screen and the host's lobby hold the stored roster of a started
\* session, written after the player's first snapshot
C21_Witness ==
    \E c \in Clients :
        /\ screen[c] = "GameScreen"
        /\ Status(route[c]) = "playing"
        /\ Len(Players(route[c])) >= 1
        /\ session[c] = gameSessions[route[c]]
        /\ lobbyPlayers[route[c]] = Players(route[c])

\* C22: the roster that an automatic join writes holds every player of the
\* snapshot that set it off (the k players of the roster, then the new one).
C22_AutoJoinKeepsRoster ==
    [][\A c \in Clients :
        (autoJoins'[c] > autoJoins[c] /\ pc'[c] = "updating") =>
            \A i \in 1..Len(session'[c].players) :
                \E k \in 1..Len(payload'[c].players) :
                    payload'[c].players[k] = session'[c].players[i]]_vars

\* C23: a device runs the automatic nickname generation and join at most once.
C23_AutoJoinOnce ==
    \A c \in Clients : autoJoins[c] <= 1

\* the entries of the roster of session s that joins of device c added
EntriesBy(c, s) ==
    {i \in 1..Len(Players(s)) : \E j \in JoinsOf(s) : j.client = c /\ j.uid = Players(s)[i].uid}

\* C24: a device that joined with the PIN on the join screen and then entered a
\* username on the lobby form has exactly one entry in the stored roster.
C24_OneEntryPerClient ==
    \A c \in Clients, s \in SessionIds :
        (/\ Exists(s) /\ pc[c] = "idle"
         /\ \E j \in JoinsOf(s) : j.client = c /\ j.via = "handleJoinGame"
         /\ \E j \in JoinsOf(s) : j.client = c /\ j.via = "joinWithUsername")
            => Cardinality(EntriesBy(c, s)) = 1


\* C25: every session launchLobby created carries a gameDuration in 1..180, a
\* maxPlayers in 1..500 and a timePerQuestion in 10..300, so a launch with a
\* field outside its range or without a number creates nothing
C25_SettingsInRange ==
    settingsDoc.created =>
        /\ settingsDoc.gameDuration \in 1..180
        /\ settingsDoc.maxPlayers \in 1..500
        /\ settingsDoc.timePerQuestion \in 10..300


\* the same under the validating menu alone
C25_ValidatedMenuInRange ==
    (settingsDoc.created /\ settingsDoc.menu = "part_007") => C25_SettingsInRange


\* C26: while the question shown to a device stays the same, the seconds left
\* on its screen never go up and never go below zero: a snapshot that carries
\* another change of the session does not start the countdown again
C26_CountdownNeverRestarts ==
    [][\A c \in Clients :
          /\ timeLeft'[c] >= 0
          /\ (/\ screen[c] = "GameScreen" /\ screen'[c] = "GameScreen"
              /\ session[c] # NoDoc /\ session'[c] # NoDoc
              /\ session'[c].currentQuestionIndex = session[c].currentQuestionIndex)
             => timeLeft'[c] <= timeLeft[c]]_vars


\* C27: while isLobbyLocked of a session is true no player is added to its
\* roster: a join against a locked lobby is refused
C27_LockedLobbyAddsNoPlayer ==
    [][\A s \in SessionIds :
          (/\ Exists(s) /\ gameSessions[s].isLobbyLocked
           /\ Exists(s)' /\ gameSessions'[s].isLobbyLocked)
          => Len(gameSessions'[s].players) <= Len(gameSessions[s].players)]_vars


\* C28: the join screen never has two calls of handleJoinGame in flight: the
\* button is disabled while isJoining is true, isJoining is true while a call
\* is in flight and false again once it returned, whichever way it ended
C28_OneJoinInFlight ==
    /\ inFlight <= 1
    /\ isJoining <=> inFlight = 1

\* a call went in flight, failed in the store, and left the button enabled
C28_Witness ==
    /\ joinAlert = "Error"
    /\ codeCheck = "accepted"
    /\ inFlight = 0
    /\ ~isJoining


\* C29: for the whole time a deletion is in flight deletingIds holds the id of
\* its game, also when deletions of several games overlap
C29_DeletingIdsCoversInFlight ==
    \A i \in 1..Len(deletions) : deletions[i].gameId \in deletingIds

\* the other parts of C29: no game has two deletions in flight at once, and a
\* game is taken off the list only when its document left the store
C29_OneDeletionPerGame ==
    \A i, j \in 1..Len(deletions) :
        deletions[i].gameId = deletions[j].gameId => i = j

C29_FailedDeletionKeepsGame ==
    [][\A g \in GameIds : (g \in games /\ g \notin games') => g \notin gameDocs']_vars


\* C30: every game document saveGame wrote has a title that is trimmed and not
\* empty, at least one question, and a numQuestions equal to the number of
\* questions saved with it; with a blank title or without questions saveGame
\* wrote nothing
C30_SavedGamesWellFormed ==
    \A game \in savedGames :
        /\ game.title # ""
        /\ game.title = Trim(game.title)
        /\ Len(game.questions) >= 1
        /\ game.numQuestions = Len(game.questions)

\* a game typed with blanks around its title was saved with two questions
C30_Witness ==
    \E game \in savedGames : game.title = "Quiz" /\ game.numQuestions = 2

====
